---- MODULE Spec2Model ----
(***************************************************************************)
(* A model of the Slack bot of src/app.py: the Flask request handlers      *)
(* (/events, /set-apikey, /get-apikey, /delete-apikey, /oauth/callback,    *)
(* /, /install), the request verifier, the image pipeline and the          *)
(* notifier, over the external key-value store and the in-memory set of    *)
(* processed event ids.                                                    *)
(*                                                                         *)
(* app.run serves every request on a thread of its own.  A handler is a    *)
(* sequence of steps of its worker thread: the step that takes the request *)
(* runs the handler up to its first outbound call, and every outbound call *)
(* (store access, image download, inference POST, chat.postMessage, OAuth  *)
(* exchange) is a step of its own, which runs on to the next call or to    *)
(* the response.  Between two steps of a thread the other threads and the  *)
(* clock move.  A call answers or raises; no handler catches what a call   *)
(* raises, so the exception ends the handler (answered 500).               *)
(*                                                                         *)
(* src/app.py reads os.environ at line 13 and never imports os: executed   *)
(* as it stands the module raises NameError there and no route exists (the *)
(* workers are Crashed and nothing is served).  Everything else describes  *)
(* the module loaded with the name os bound.                               *)
(*                                                                         *)
(* Python strings are sequences of characters or of opaque chunks; None    *)
(* and a value v are PyNone and Some(v).                                   *)
(***************************************************************************)
EXTENDS Integers, Sequences, FiniteSets, TLC

VARIABLES
    now,                  \* time.time(), in whole seconds
    redis,                \* the external store: key -> [val, exp]
    processed_event_ids,  \* the module-level set of app.py
    workers,              \* the worker threads: what each is doing, and its locals
    written,              \* history: the last write the store made to each user's API key
    replies,              \* history: post_to_slack calls made for each event id
    warnings,             \* history: times of the warning posts of each (user, ts)
    exchanged,            \* history: the token of the last successful exchange of each team
    handled               \* history: requests taken and moves of the clock so far

vars ==
    <<now, redis, processed_event_ids, workers, written, replies, warnings, exchanged, handled>>

---------------------------------------------------------------------------
(* Bounds of the model *)

MaxFiles == 2       \* files attached to one event
MaxLen == 2         \* characters of a /set-apikey text
MaxWindows == 1     \* cooldown windows the clock runs through
MaxRequests == 2    \* requests taken, and moves of the clock, in one run

(* Constants of the program *)

ReplayWindow == 300   \* 60 * 5
WarnTTL == 3600       \* ex=3600
StartTime == 1000000  \* the clock when the process starts

SLACK_TOKEN == <<"xoxb-static">>
SLACK_SIGNING_SECRET == <<"signing-secret">>
TILITER_URL == "https://api.ai.vision.tiliter.com/api/v1/inference/receipt-processor"

---------------------------------------------------------------------------
(* Python values *)

PyNone == [some |-> FALSE]
Some(v) == [some |-> TRUE, val |-> v]
IsNone(x) == ~x.some
\* bool(x) of None or of a string
Truthy(x) == x.some /\ x.val # <<>>

Abs(n) == IF n < 0 THEN -n ELSE n

\* the characters str.strip() removes (str.isspace); those a TLA+ string
\* cannot hold are written as their Python escapes
Whitespace ==
    {" ", "\t", "\n", "\r", "\f", "\\v", "\\x1c", "\\x1d", "\\x1e", "\\x1f", "\\x85",
     "\\xa0", "\\u1680", "\\u2000", "\\u2001", "\\u2002", "\\u2003", "\\u2004",
     "\\u2005", "\\u2006", "\\u2007", "\\u2008", "\\u2009", "\\u200a", "\\u2028",
     "\\u2029", "\\u202f", "\\u205f", "\\u3000"}

\* str.strip(): leading and trailing whitespace removed
RECURSIVE LStrip(_)
LStrip(s) == IF s # <<>> /\ Head(s) \in Whitespace THEN LStrip(Tail(s)) ELSE s
RECURSIVE RStrip(_)
RStrip(s) ==
    IF s # <<>> /\ s[Len(s)] \in Whitespace THEN RStrip(SubSeq(s, 1, Len(s) - 1)) ELSE s
\* a bug: lstrip() for strip()
Strip_LeftOnly(s) == LStrip(s)
Strip(s) == RStrip(LStrip(s))

---------------------------------------------------------------------------
(* The domains the requests are drawn from *)

Teams == {"T1", "T2"}
Users == {"U1", "U2"}
EventIds == {"Ev1", "Ev2"}
MessageTs == {"1700.01"}
Channel == "C1"
AccessTokens == {<<"xoxb-1">>, <<"xoxb-2">>}
Alphabet == {"k", " ", "\t"}
Texts == UNION {[1..n -> Alphabet] : n \in 0..MaxLen}
ClockValues == {StartTime + w * WarnTTL - e : w \in 0..MaxWindows, e \in {0, 1}}
                 \ {StartTime - 1}

---------------------------------------------------------------------------
(* The store (upstash_redis.Redis): get, set with an optional ttl, delete. *)
(* A key with a ttl is gone once the ttl has run out.                      *)

NoExpiry == -1
TokenKey(team_id) == <<"token", team_id>>
\* a bug: one key entry for all users
ApiKeyKey_Shared(user_id) == <<"key", "U1">>
ApiKeyKey(user_id) == <<"key", user_id>>
WarnKey(user_id, ts) == <<"warned", user_id, ts>>

Live(store, k, t) ==
    k \in DOMAIN store /\ (store[k].exp = NoExpiry \/ store[k].exp > t)
RedisGet(store, k, t) == IF Live(store, k, t) THEN Some(store[k].val) ELSE PyNone
RedisSet(store, k, v, exp) ==
    [x \in DOMAIN store \cup {k} |-> IF x = k THEN [val |-> v, exp |-> exp] ELSE store[x]]
RedisDelete(store, k) == [x \in DOMAIN store \ {k} |-> store[x]]
Expire(store, t) == [x \in {k \in DOMAIN store : Live(store, k, t)} |-> store[x]]
\* a store access answers or raises (the REST call fails)
StoreOutcomes == {"ok", "error"}

---------------------------------------------------------------------------
(* Requests: the two headers the verifier reads, and the body *)

\* a header holding the decimal string of n, and one that is no number
NumStr(n) == [numeric |-> TRUE, n |-> n]
NotANumber == [numeric |-> FALSE, n |-> 0]

\* 'v0=' + HMAC-SHA256(secret, "v0:" + timestamp + ":" + body).hexdigest():
\* equal exactly when secret, timestamp and body are
Sign(secret, timestamp, body) == <<"v0=", secret, <<"v0", timestamp, body>>>>

Deviations == {-(ReplayWindow + 1), -ReplayWindow, 0, ReplayWindow, ReplayWindow + 1}
TimestampHeaders(t) == {PyNone, Some(NotANumber)} \cup {Some(NumStr(t + d)) : d \in Deviations}
SigKinds == {"valid", "wrong_secret", "other_body", "other_timestamp", "missing"}
TamperedBody == [tampered |-> TRUE]
SignatureHeader(kind, timestamp, body) ==
    CASE kind = "valid" -> Some(Sign(SLACK_SIGNING_SECRET, timestamp, body))
      [] kind = "wrong_secret" -> Some(Sign(<<"guess">>, timestamp, body))
      [] kind = "other_body" -> Some(Sign(SLACK_SIGNING_SECRET, timestamp, TamperedBody))
      [] kind = "other_timestamp" -> Some(Sign(SLACK_SIGNING_SECRET, PyNone, body))
      [] OTHER -> PyNone
Request(timestamp, kind, body) ==
    [timestamp |-> timestamp, signature |-> SignatureHeader(kind, timestamp, body),
     body |-> body]
\* every body correctly signed now
Signed(bodies, t) == {Request(Some(NumStr(t)), "valid", b) : b \in bodies}
\* one body under a signature made with another secret
Forged(rep, t) == {Request(Some(NumStr(t)), "wrong_secret", rep)}
\* every body correctly signed now, and one body under every pair of headers
Requests(bodies, rep, t) ==
    Signed(bodies, t) \cup {Request(h, k, rep) : h \in TimestampHeaders(t), k \in SigKinds}

---------------------------------------------------------------------------
(* verify_slack_request: passes, aborts with 400, or raises *)

\* a bug: only requests from the past are taken for stale
TimestampStale_PastOnly(t, timestamp) == t - timestamp > 60 * 5
TimestampStale(t, timestamp) == Abs(t - timestamp) > 60 * 5

verify_slack_request(req, t) ==
    LET timestamp == req.timestamp IN
    IF IsNone(timestamp) THEN [kind |-> "raise", exc |-> "TypeError", compared |-> FALSE]
    ELSE IF ~timestamp.val.numeric
    THEN [kind |-> "raise", exc |-> "ValueError", compared |-> FALSE]
    ELSE IF TimestampStale(t, timestamp.val.n)
    THEN [kind |-> "abort", status |-> 400, body |-> "Invalid request timestamp.",
          compared |-> FALSE]
    ELSE LET my_signature == Sign(SLACK_SIGNING_SECRET, timestamp, req.body)
             slack_signature == req.signature
         IN IF IsNone(slack_signature)
            THEN [kind |-> "raise", exc |-> "TypeError", compared |-> TRUE]
            ELSE IF my_signature # slack_signature.val
            THEN [kind |-> "abort", status |-> 400, body |-> "Invalid Slack signature.",
                  compared |-> TRUE]
            ELSE [kind |-> "pass", compared |-> TRUE]

---------------------------------------------------------------------------
(* A worker thread: at rest, or handling a request.  While it handles one  *)
(* it holds the request, what the verifier said of it, the outbound calls  *)
(* it has made, in order, and the handler's local variables; once done, it *)
(* holds the response (or the exception that left the handler, which the   *)
(* framework answers with 500).                                            *)

Workers == {"w1", "w2"}
Idle == [pc |-> "idle"]
NoWorkers == [w \in Workers |-> Idle]
\* line 13 raised NameError while the module was loaded: nothing is served
Crashed == [w \in Workers |-> [pc |-> "NameError"]]

Passed == [kind |-> "pass", compared |-> TRUE]
NoGate == [kind |-> "none", compared |-> FALSE]

\* the request has been taken by endpoint ep; gate: what the verifier said
Taken(ep, req, gate) ==
    [ep |-> ep, req |-> req, gate |-> gate, verified |-> (gate.kind = "pass"),
     passed |-> FALSE, calls |-> <<>>]
\* the handler goes on to the call at pc
At(c, pc) == [pc |-> pc] @@ c
\* local variables are assigned
With(c, locals) == locals @@ c
\* an outbound call has been made
Called(c, call) == [calls |-> Append(c.calls, call)] @@ c
\* make_response(body, status), or a (body, status) pair returned
Response(c, status, body) ==
    [pc |-> "done", status |-> status, body |-> body, raised |-> FALSE] @@ c
\* an exception raised inside the handler and caught nowhere
Uncaught(c, exc) ==
    [pc |-> "done", status |-> 500, body |-> <<exc>>, raised |-> TRUE] @@ c
\* verify_slack_request did not return: abort(400, ...) or an exception in it
Rejected(c, v) ==
    IF v.kind = "abort" THEN Response(c, v.status, <<v.body>>) ELSE Uncaught(c, v.exc)

\* a bug: the handler goes on whatever the verifier did
Admitted_Always(v) == TRUE
\* verify_slack_request(request) returned, and the handler goes on
Admitted(v) == v.kind = "pass"

\* str(n) of a natural number
Digit(d) == <<"0", "1", "2", "3", "4", "5", "6", "7", "8", "9">>[d + 1]
RECURSIVE Str(_)
Str(n) == IF n < 10 THEN <<Digit(n)>> ELSE Str(n \div 10) \o <<Digit(n % 10)>>

\* sub in s, for strings
Contains(s, sub) ==
    \E i \in 0..(Len(s) - Len(sub)) : SubSeq(s, i + 1, i + Len(sub)) = sub

\* worker w is at pc; worker w goes on as c
Doing(w, pc) == workers[w].pc = pc
Becomes(w, c) == workers' = [workers EXCEPT ![w] = c]

---------------------------------------------------------------------------
(* The slash commands: /set-apikey, /get-apikey, /delete-apikey *)

UsageMessage == <<"Usage: /set-apikey YOUR_KEY">>
SavedMessage == <<"Tiliter API key saved successfully.">>
NoKeyMessage == <<"No API key set.">>
RemovedMessage == <<"Tiliter API key removed.">>
CurrentKeyMessage(api_key) == <<"Your current API key is:", "<fence>">> \o api_key \o <<"<fence>">>

\* a bug: the test of line 141 is lost
IsBlank_Never(text) == FALSE
\* not text
IsBlank(text) == text = <<>>

\* lines 136-142: the request is verified, the text stripped and tested
SetApiKey(w, reqs) ==
    /\ workers[w] = Idle
    /\ \E req \in reqs :
         LET v == verify_slack_request(req, now)
             c == Taken("set_api_key", req, v)
             text == Strip(req.body.text)
         IN Becomes(w, IF ~Admitted(v) THEN Rejected(c, v)
                       ELSE IF IsBlank(text) THEN Response(c, 200, UsageMessage)
                       ELSE At(With(c, [text |-> text]), "key_set"))
    /\ UNCHANGED <<now, redis, processed_event_ids, written, replies, warnings, exchanged>>

\* lines 144-146: redis.set(f"key:{user_id}", text)
KeySet(w) ==
    /\ Doing(w, "key_set")
    /\ LET c == workers[w]
           key == ApiKeyKey(c.req.body.user_id)
           call(ok) == [op |-> "redis.set", key |-> key, val |-> c.text, ok |-> ok]
       IN \E o \in StoreOutcomes :
            IF o = "error"
            THEN /\ Becomes(w, Uncaught(Called(c, call(FALSE)), "RedisError"))
                 /\ UNCHANGED <<redis, written>>
            ELSE /\ Becomes(w, Response(Called(c, call(TRUE)), 200, SavedMessage))
                 /\ redis' = RedisSet(redis, key, c.text, NoExpiry)
                 /\ written' = [written EXCEPT ![c.req.body.user_id] =
                                  [op |-> "set", text |-> c.req.body.text]]
    /\ UNCHANGED <<now, processed_event_ids, replies, warnings, exchanged>>

\* lines 150-152
GetApiKey(w, reqs) ==
    /\ workers[w] = Idle
    /\ \E req \in reqs :
         LET v == verify_slack_request(req, now)
             c == Taken("get_api_key", req, v)
         IN Becomes(w, IF ~Admitted(v) THEN Rejected(c, v) ELSE At(c, "key_get"))
    /\ UNCHANGED <<now, redis, processed_event_ids, written, replies, warnings, exchanged>>

\* lines 153-158: redis.get(f"key:{user_id}")
KeyGet(w) ==
    /\ Doing(w, "key_get")
    /\ LET c == workers[w]
           key == ApiKeyKey(c.req.body.user_id)
           call(ok) == [op |-> "redis.get", key |-> key, ok |-> ok]
           api_key == RedisGet(redis, key, now)
       IN \E o \in StoreOutcomes :
            Becomes(w, IF o = "error" THEN Uncaught(Called(c, call(FALSE)), "RedisError")
                       ELSE IF Truthy(api_key)
                       THEN Response(Called(c, call(TRUE)), 200, CurrentKeyMessage(api_key.val))
                       ELSE Response(Called(c, call(TRUE)), 200, NoKeyMessage))
    /\ UNCHANGED <<now, redis, processed_event_ids, written, replies, warnings, exchanged>>

\* lines 162-163
DeleteApiKey(w, reqs) ==
    /\ workers[w] = Idle
    /\ \E req \in reqs :
         LET v == verify_slack_request(req, now)
             c == Taken("delete_api_key", req, v)
         IN Becomes(w, IF ~Admitted(v) THEN Rejected(c, v) ELSE At(c, "key_delete"))
    /\ UNCHANGED <<now, redis, processed_event_ids, written, replies, warnings, exchanged>>

\* lines 164-166: redis.delete(f"key:{user_id}")
KeyDelete(w) ==
    /\ Doing(w, "key_delete")
    /\ LET c == workers[w]
           key == ApiKeyKey(c.req.body.user_id)
           call(ok) == [op |-> "redis.delete", key |-> key, ok |-> ok]
       IN \E o \in StoreOutcomes :
            IF o = "error"
            THEN /\ Becomes(w, Uncaught(Called(c, call(FALSE)), "RedisError"))
                 /\ UNCHANGED <<redis, written>>
            ELSE /\ Becomes(w, Response(Called(c, call(TRUE)), 200, RemovedMessage))
                 /\ redis' = RedisDelete(redis, key)
                 /\ written' = [written EXCEPT ![c.req.body.user_id] = [op |-> "delete"]]
    /\ UNCHANGED <<now, processed_event_ids, replies, warnings, exchanged>>

\* the form bodies of the slash commands
SetBodies == [user_id : {"U1"}, text : Texts]
\* those with a text of one character at most
ShortBodies == {b \in [user_id : Users, text : Texts] : Len(b.text) <= 1}
UserBodies == [user_id : Users]

---------------------------------------------------------------------------
(* GET /, GET /install, GET /oauth/callback: none of them verifies *)

Health(w) ==
    /\ workers[w] = Idle
    /\ Becomes(w, Response(Taken("health", [path |-> "/"], NoGate), 200,
                           <<"Slack bot is running.">>))
    /\ UNCHANGED <<now, redis, processed_event_ids, written, replies, warnings, exchanged>>

Install(w) ==
    /\ workers[w] = Idle
    /\ Becomes(w, Response(Taken("install", [path |-> "/install"], NoGate), 302,
                           <<"https://slack.com/oauth/v2/authorize">>))
    /\ UNCHANGED <<now, redis, processed_event_ids, written, replies, warnings, exchanged>>

\* request.args.get("code"): absent, empty, or a code
Codes == {PyNone, Some(<<>>), Some(<<"code">>)}

\* lines 57-59
OAuthCallback(w) ==
    /\ workers[w] = Idle
    /\ \E code \in Codes :
         LET c == Taken("oauth_callback", [code |-> code], NoGate) IN
         Becomes(w, IF ~Truthy(code) THEN Response(c, 400, <<"Missing code">>)
                    ELSE At(c, "exchange"))
    /\ UNCHANGED <<now, redis, processed_event_ids, written, replies, warnings, exchanged>>

\* what https://slack.com/api/oauth.v2.access answers to the exchange
ExchangeOutcomes ==
    {[kind |-> "raise"], [kind |-> "response", status |-> 500, json |-> FALSE, ok |-> FALSE],
     [kind |-> "response", status |-> 200, json |-> FALSE, ok |-> FALSE],
     [kind |-> "response", status |-> 200, json |-> TRUE, ok |-> FALSE]}
      \cup {[kind |-> "response", status |-> 200, json |-> TRUE, ok |-> TRUE,
             team_id |-> tm, access_token |-> tok] : tm \in Teams, tok \in AccessTokens}

ExchangeSucceeded(response) ==
    response.kind = "response" /\ response.status = 200 /\ response.json /\ response.ok

\* lines 61-73: the exchange, and the test of its answer
OAuthExchange(w) ==
    /\ Doing(w, "exchange")
    /\ \E response \in ExchangeOutcomes :
         LET c == Called(workers[w], [op |-> "oauth.v2.access",
                                      code |-> workers[w].req.code.val,
                                      response |-> response])
         IN
         /\ Becomes(w, IF response.kind = "raise" THEN Uncaught(c, "ConnectionError")
                       ELSE IF response.status # 200 THEN Response(c, 400, <<"OAuth failed">>)
                       ELSE IF ~response.json THEN Uncaught(c, "JSONDecodeError")
                       ELSE IF ~response.ok THEN Response(c, 400, <<"OAuth failed">>)
                       ELSE At(With(c, [team_id |-> response.team_id,
                                        access_token |-> response.access_token]),
                               "token_set"))
         /\ exchanged' = IF ExchangeSucceeded(response)
                         THEN [exchanged EXCEPT ![response.team_id] =
                                 Some(response.access_token)]
                         ELSE exchanged
    /\ UNCHANGED <<now, redis, processed_event_ids, written, replies, warnings>>

\* lines 75-78: redis.set(f"token:{team_id}", access_token)
TokenSet(w) ==
    /\ Doing(w, "token_set")
    /\ LET c == workers[w]
           key == TokenKey(c.team_id)
           call(ok) == [op |-> "redis.set", key |-> key, val |-> c.access_token, ok |-> ok]
       IN \E o \in StoreOutcomes :
            IF o = "error"
            THEN /\ Becomes(w, Uncaught(Called(c, call(FALSE)), "RedisError"))
                 /\ UNCHANGED redis
            ELSE /\ Becomes(w, Response(Called(c, call(TRUE)), 200,
                                        <<"App installed successfully!">>))
                 /\ redis' = RedisSet(redis, key, c.access_token, NoExpiry)
    /\ UNCHANGED <<now, processed_event_ids, written, replies, warnings, exchanged>>

---------------------------------------------------------------------------
(* post_to_slack: one chat.postMessage; the answer is printed, not looked  *)
(* at, and what requests.post raises is not caught.                        *)

PostOutcomes == {"ok", "raise"}

post_to_slack(channel, thread_ts, message, bot_token) ==
    {[call |-> [op |-> "post_to_slack", channel |-> channel, thread_ts |-> thread_ts,
                text |-> message, token |-> bot_token, outcome |-> o],
      raised |-> (o = "raise")] : o \in PostOutcomes}

---------------------------------------------------------------------------
(* handle_image: download, then one inference POST, then the formatting.   *)
(* It returns the text to post, or an exception of requests leaves it.     *)
(* The download and the inference POST are the steps Download and          *)
(* Inference of the worker.                                                *)

DownloadOutcomes ==
    {[kind |-> "raise"], [kind |-> "response", status |-> 200],
     [kind |-> "response", status |-> 404]}
InferenceText == <<"upstream body">>
SampleResult ==
    [merchant |-> <<"Shop">>, total |-> <<"9.50">>, date |-> <<"2024-01-01">>,
     address |-> <<"1 Main St">>, currency |-> <<"EUR">>,
     items |-> <<[name |-> <<"Tea">>, price |-> <<"9.50">>]>>]
InferenceOutcomes ==
    {[kind |-> "raise"],
     [kind |-> "response", status |-> 500, json |-> FALSE],
     [kind |-> "response", status |-> 200, json |-> FALSE],
     [kind |-> "response", status |-> 200, json |-> TRUE, result |-> SampleResult]}

DownloadFailedMessage(status) == <<":x: Failed to download image. Status: ">> \o Str(status)
\* a bug: the message leaves the status code out
TiliterErrorMessage_NoStatus(status, text) == <<":x: Tiliter API error: ">> \o text
TiliterErrorMessage(status, text) ==
    <<":x: Tiliter API error ">> \o Str(status) \o <<": ">> \o text
ParseFailedMessage == <<":x: Could not parse Tiliter response:", "JSONDecodeError">>

RECURSIVE ItemLines(_, _)
ItemLines(items, currency) ==
    IF items = <<>> THEN <<>>
    ELSE <<"* ">> \o Head(items).name \o <<" - ">> \o Head(items).price \o currency
           \o ItemLines(Tail(items), currency)
ReceiptMessage(result) ==
    <<":receipt: *Receipt Details:*", "- Merchant: *">> \o result.merchant
      \o <<"- Date: *">> \o result.date
      \o <<"- Total: *">> \o result.total \o result.currency
      \o <<"- Address: ">> \o result.address
      \o <<":shopping_trolley: *Items:*">>
      \o (IF result.items = <<>> THEN <<"_No items detected._">>
          ELSE ItemLines(result.items, result.currency))

\* a bug: the status of the download is not looked at
DownloadFailed_Never(image_response) == FALSE
DownloadFailed(image_response) == image_response.status # 200
InferenceFailed(response) == response.status # 200

---------------------------------------------------------------------------
(* POST /events *)

WarningMessage == <<":warning: You haven't set your Tiliter API key yet.">>

\* a mimetype "major/minor" is <<major, minor>>; one without a slash is <<major>>
\* a bug: every attachment is taken for an image
IsImage_Any(file) == TRUE
IsImage(file) == Len(file.mimetype) >= 2 /\ file.mimetype[1] = "image"

\* the stored token of the team, or the static one
\* a bug: the stored token is never used
ResolveBotToken_Static(stored) == SLACK_TOKEN
ResolveBotToken(stored) == IF ~Truthy(stored) THEN SLACK_TOKEN ELSE stored.val

\* a bug: the membership test is lost
IsDuplicate_Never(event_id, seen) == FALSE
IsDuplicate(event_id, seen) == event_id \in seen

\* redis.get(warn_key), as the condition of line 113 reads it
AlreadyWarned(store, warn_key, t) == Truthy(RedisGet(store, warn_key, t))

IsPost(c) == c.op = "post_to_slack"
Posts(calls) == SelectSeq(calls, IsPost)
IsWarning(c) == c.op = "post_to_slack" /\ c.text = WarningMessage
WarningPosts(calls) == SelectSeq(calls, IsWarning)
Pairs == Users \X MessageTs

\* lines 82-86: the verifier and the handshake
SlackEvents(w, reqs) ==
    /\ workers[w] = Idle
    /\ \E req \in reqs :
         LET v == verify_slack_request(req, now)
             c == Taken("events", req, v)
         IN Becomes(w, IF ~Admitted(v) THEN Rejected(c, v)
                       ELSE IF req.body.type = "url_verification"
                       THEN Response(c, 200, req.body.challenge)
                       ELSE At(c, "token_lookup"))
    /\ UNCHANGED <<now, redis, processed_event_ids, written, replies, warnings, exchanged>>

\* lines 88-100: redis.get(f"token:{team_id}"), and the fallback
TokenLookup(w) ==
    /\ Doing(w, "token_lookup")
    /\ LET c == workers[w]
           key == TokenKey(c.req.body.team_id)
           call(ok) == [op |-> "redis.get", key |-> key, ok |-> ok]
           bot_token == ResolveBotToken(RedisGet(redis, key, now))
       IN \E o \in StoreOutcomes :
            Becomes(w, IF o = "error" THEN Uncaught(Called(c, call(FALSE)), "RedisError")
                       ELSE At(With(Called(c, call(TRUE)), [bot_token |-> bot_token]),
                               "seen_test"))
    /\ UNCHANGED <<now, redis, processed_event_ids, written, replies, warnings, exchanged>>

\* lines 102-103: event_id in processed_event_ids
SeenTest(w) ==
    /\ Doing(w, "seen_test")
    /\ LET c == workers[w] IN
       Becomes(w, IF IsDuplicate(c.req.body.event_id, processed_event_ids)
                  THEN Response(c, 200, <<"Duplicate">>)
                  ELSE At(With(c, [passed |-> TRUE]), "seen_add"))
    /\ UNCHANGED <<now, redis, processed_event_ids, written, replies, warnings, exchanged>>

\* lines 104-108: processed_event_ids.add(event_id), and the kind of event
SeenAdd(w) ==
    /\ Doing(w, "seen_add")
    /\ LET c == workers[w]
           event == c.req.body.event
       IN /\ processed_event_ids' = processed_event_ids \cup {c.req.body.event_id}
          /\ Becomes(w, IF event.type = "message" /\ event.subtype = "file_share"
                        THEN IF event.bot_id THEN Response(c, 200, <<"Ignore bot">>)
                             ELSE At(c, "key_lookup")
                        ELSE Response(c, 200, <<"OK">>))
    /\ UNCHANGED <<now, redis, written, replies, warnings, exchanged>>

\* the files from the first image on
RECURSIVE SkipToImage(_)
SkipToImage(files) ==
    IF files = <<>> \/ IsImage(Head(files)) THEN files ELSE SkipToImage(Tail(files))
\* lines 125-126, 132: the loop goes on to the next image, or the handler returns
NextFile(c, files) ==
    IF SkipToImage(files) = <<>> THEN Response(c, 200, <<"OK">>)
    ELSE At(With(c, [files |-> SkipToImage(files)]), "download")

\* lines 110-111, 122-126: redis.get(f"key:{user_id}")
KeyLookup(w) ==
    /\ Doing(w, "key_lookup")
    /\ LET c == workers[w]
           event == c.req.body.event
           key == ApiKeyKey(event.user)
           call(ok) == [op |-> "redis.get", key |-> key, ok |-> ok]
           api_key == RedisGet(redis, key, now)
       IN \E o \in StoreOutcomes :
            Becomes(w, IF o = "error" THEN Uncaught(Called(c, call(FALSE)), "RedisError")
                       ELSE IF IsNone(api_key) THEN At(Called(c, call(TRUE)), "warn_lookup")
                       ELSE NextFile(With(Called(c, call(TRUE)), [api_key |-> api_key.val]),
                                     event.files))
    /\ UNCHANGED <<now, redis, processed_event_ids, written, replies, warnings, exchanged>>

\* lines 112-113, 120: redis.get(warn_key)
WarnLookup(w) ==
    /\ Doing(w, "warn_lookup")
    /\ LET c == workers[w]
           warn_key == WarnKey(c.req.body.event.user, c.req.body.event.ts)
           call(ok) == [op |-> "redis.get", key |-> warn_key, ok |-> ok]
       IN \E o \in StoreOutcomes :
            Becomes(w, IF o = "error" THEN Uncaught(Called(c, call(FALSE)), "RedisError")
                       ELSE IF AlreadyWarned(redis, warn_key, now)
                       THEN Response(Called(c, call(TRUE)), 200, <<"No API key">>)
                       ELSE At(Called(c, call(TRUE)), "warn_set"))
    /\ UNCHANGED <<now, redis, processed_event_ids, written, replies, warnings, exchanged>>

\* line 114: redis.set(warn_key, "1", ex=3600)
WarnSet(w) ==
    /\ Doing(w, "warn_set")
    /\ LET c == workers[w]
           warn_key == WarnKey(c.req.body.event.user, c.req.body.event.ts)
           call(ok) == [op |-> "redis.set", key |-> warn_key, val |-> <<"1">>, ok |-> ok]
       IN \E o \in StoreOutcomes :
            IF o = "error"
            THEN /\ Becomes(w, Uncaught(Called(c, call(FALSE)), "RedisError"))
                 /\ UNCHANGED redis
            ELSE /\ Becomes(w, At(Called(c, call(TRUE)), "warn_post"))
                 /\ redis' = RedisSet(redis, warn_key, <<"1">>, now + 3600)
    /\ UNCHANGED <<now, processed_event_ids, written, replies, warnings, exchanged>>

\* lines 116-120: the warning is posted
WarnPost(w) ==
    /\ Doing(w, "warn_post")
    /\ LET c == workers[w]
           event == c.req.body.event
       IN /\ \E p \in post_to_slack(event.channel, event.ts, WarningMessage, c.bot_token) :
               Becomes(w, IF p.raised THEN Uncaught(Called(c, p.call), "ConnectionError")
                          ELSE Response(Called(c, p.call), 200, <<"No API key">>))
          /\ replies' = [replies EXCEPT ![c.req.body.event_id] = @ + 1]
          /\ warnings' = [warnings EXCEPT ![<<event.user, event.ts>>] = Append(@, now)]
    /\ UNCHANGED <<now, redis, processed_event_ids, written, exchanged>>

\* lines 127-129, 170-175: handle_image is called and downloads the image
Download(w) ==
    /\ Doing(w, "download")
    /\ LET c == workers[w]
           image_url == Head(c.files).url_private
       IN \E image_response \in DownloadOutcomes :
            LET d == Called(c, [op |-> "requests.get", url |-> image_url,
                                token |-> c.bot_token, response |-> image_response])
            IN Becomes(w, IF image_response.kind = "raise" THEN Uncaught(d, "ConnectionError")
                          ELSE IF DownloadFailed(image_response)
                          THEN At(With(d, [result |->
                                             DownloadFailedMessage(image_response.status)]),
                                  "reply")
                          ELSE At(d, "inference"))
    /\ UNCHANGED <<now, redis, processed_event_ids, written, replies, warnings, exchanged>>

\* lines 176-216: the inference POST, and the formatting of its answer
Inference(w) ==
    /\ Doing(w, "inference")
    /\ LET c == workers[w]
           image_url == Head(c.files).url_private
       IN \E response \in InferenceOutcomes :
            LET d == Called(c, [op |-> "requests.post", url |-> TILITER_URL,
                                api_key |-> c.api_key, image |-> image_url,
                                response |-> response])
                result == IF InferenceFailed(response)
                          THEN TiliterErrorMessage(response.status, InferenceText)
                          ELSE IF ~response.json THEN ParseFailedMessage
                          ELSE ReceiptMessage(response.result)
            IN Becomes(w, IF response.kind = "raise" THEN Uncaught(d, "ConnectionError")
                          ELSE At(With(d, [result |-> result]), "reply"))
    /\ UNCHANGED <<now, redis, processed_event_ids, written, replies, warnings, exchanged>>

\* line 130: the result is posted, and the loop goes on
Reply(w) ==
    /\ Doing(w, "reply")
    /\ LET c == workers[w]
           event == c.req.body.event
       IN /\ \E p \in post_to_slack(event.channel, event.ts, c.result, c.bot_token) :
               Becomes(w, IF p.raised THEN Uncaught(Called(c, p.call), "ConnectionError")
                          ELSE NextFile(Called(c, p.call), Tail(c.files)))
          /\ replies' = [replies EXCEPT ![c.req.body.event_id] = @ + 1]
    /\ UNCHANGED <<now, redis, processed_event_ids, written, warnings, exchanged>>

\* the bodies of the deliveries
MimeTypes == {<<"image", "png">>, <<"application", "pdf">>}
Url(i) == <<"https://files.slack.com/", Digit(i)>>
FileLists ==
    UNION {{[i \in 1..n |-> [mimetype |-> m[i], url_private |-> Url(i)]]
              : m \in [1..n -> MimeTypes]} : n \in 0..MaxFiles}
Event(type, subtype, user_id, bot_id, ts, files) ==
    [type |-> type, subtype |-> subtype, user |-> user_id, bot_id |-> bot_id,
     ts |-> ts, channel |-> Channel, files |-> files]
Events ==
    {Event("message", "file_share", u, FALSE, ts, fs)
       : u \in Users, ts \in MessageTs, fs \in FileLists}
      \cup {Event("message", "file_share", u, TRUE, ts, <<[mimetype |-> <<"image", "png">>,
                                                          url_private |-> Url(1)]>>)
              : u \in Users, ts \in MessageTs}
      \cup {Event("message", "channel_join", u, FALSE, ts, <<>>) : u \in {"U1"}, ts \in MessageTs}
      \cup {Event("app_mention", "file_share", u, FALSE, ts, <<>>) : u \in {"U1"}, ts \in MessageTs}
Handshake == [type |-> "url_verification", challenge |-> <<"challenge">>]
Delivery(team_id, event_id, event) ==
    [type |-> "event_callback", team_id |-> team_id, event_id |-> event_id, event |-> event]
\* every event from the first team, one image upload from the others
EventBodies ==
    {Handshake}
      \cup {Delivery("T1", "Ev1", ev) : ev \in Events}
      \cup {Delivery(tm, "Ev2", Event("message", "file_share", "U1", FALSE, ts,
                                      <<[mimetype |-> <<"image", "png">>, url_private |-> Url(1)]>>))
              : tm \in Teams \ {"T1"}, ts \in MessageTs}

---------------------------------------------------------------------------
(* The server *)

SlashCommands == {"set_api_key", "get_api_key", "delete_api_key"}
\* no write to a user's API key has been made since the process started
NoWrites == [u \in Users |-> [op |-> "none"]]

\* the response goes out and the thread is free for the next request
Return(w) ==
    /\ Doing(w, "done")
    /\ Becomes(w, Idle)
    /\ UNCHANGED <<now, redis, processed_event_ids, written, replies, warnings, exchanged>>

\* time passes; keys whose ttl has run out are gone
Tick ==
    /\ \E t \in ClockValues :
         /\ t > now
         /\ now' = t
         /\ redis' = Expire(redis, t)
    /\ UNCHANGED <<processed_event_ids, workers, written, replies, warnings, exchanged>>

EmptyStore == [k \in {} |-> [val |-> <<>>, exp |-> NoExpiry]]

\* a fresh deployment: nothing stored, nothing seen; the module has been
\* loaded, or has failed at line 13
Init ==
    /\ now = StartTime
    /\ redis = EmptyStore
    /\ processed_event_ids = {}
    /\ workers \in {NoWorkers, Crashed}
    /\ written = NoWrites
    /\ replies = [e \in EventIds |-> 0]
    /\ warnings = [p \in Pairs |-> <<>>]
    /\ exchanged = [tm \in Teams |-> PyNone]
    /\ handled = 0

\* a request is taken or the clock moves (MaxRequests of these in a run); a
\* thread takes a step of the request it has
Serve(A) == handled < MaxRequests /\ A /\ handled' = handled + 1
Free(A) == A /\ UNCHANGED handled

\* the handshake and the deliveries of one-image uploads of the first team
ThreadImage == <<[mimetype |-> <<"image", "png">>, url_private |-> Url(1)]>>
ThreadBodies ==
    {Handshake}
      \cup {Delivery("T1", e, Event("message", "file_share", u, FALSE, ts, ThreadImage))
              : e \in EventIds, u \in Users, ts \in MessageTs}
ThreadRequests(t) == Signed(ThreadBodies, t) \cup Forged(Handshake, t)
\* those of one event id, and the upload of the first user among them
ServerBodies == {b \in ThreadBodies : b.type = "url_verification" \/ b.event_id = "Ev1"}
Upload == Delivery("T1", "Ev1", Event("message", "file_share", "U1", FALSE, "1700.01", ThreadImage))

\* the steps of the handlers, on whichever thread
Steps ==
    \/ \E w \in Workers : Free(TokenLookup(w))
    \/ \E w \in Workers : Free(SeenTest(w))
    \/ \E w \in Workers : Free(SeenAdd(w))
    \/ \E w \in Workers : Free(KeyLookup(w))
    \/ \E w \in Workers : Free(WarnLookup(w))
    \/ \E w \in Workers : Free(WarnSet(w))
    \/ \E w \in Workers : Free(WarnPost(w))
    \/ \E w \in Workers : Free(Download(w))
    \/ \E w \in Workers : Free(Inference(w))
    \/ \E w \in Workers : Free(Reply(w))
    \/ \E w \in Workers : Free(Return(w))

\* the whole server: requests to any of the endpoints, taken by the threads
\* side by side, while time passes.  Every gated endpoint is tried under
\* every pair of headers.
Next ==
    \/ \E w \in Workers : Serve(Health(w))
    \/ \E w \in Workers : Serve(Install(w))
    \/ \E w \in Workers : Serve(OAuthCallback(w))
    \/ \E w \in Workers :
         Serve(SlackEvents(w, Requests(ServerBodies, Upload, now)))
    \/ \E w \in Workers :
         Serve(SetApiKey(w, Requests(ShortBodies, [user_id |-> "U1", text |-> <<"k">>], now)))
    \/ \E w \in Workers :
         Serve(GetApiKey(w, Requests(UserBodies, [user_id |-> "U1"], now)))
    \/ \E w \in Workers :
         Serve(DeleteApiKey(w, Requests(UserBodies, [user_id |-> "U1"], now)))
    \/ \E w \in Workers : Free(OAuthExchange(w))
    \/ \E w \in Workers : Free(TokenSet(w))
    \/ \E w \in Workers : Free(KeySet(w))
    \/ \E w \in Workers : Free(KeyGet(w))
    \/ \E w \in Workers : Free(KeyDelete(w))
    \/ Steps
    \/ Serve(Tick)

Spec == Init /\ [][Next]_vars

\* the event intake alone, over a store that earlier runs have filled: the
\* first team has installed, the second has or has not; the first user has
\* set a key, the second has none
StoredToken(team_id) == IF team_id = "T1" THEN <<"xoxb-1">> ELSE <<"xoxb-2">>
EventStores ==
    {[k \in {TokenKey(tm) : tm \in I} \cup {ApiKeyKey("U1")} |->
        IF k[1] = "token" THEN [val |-> StoredToken(k[2]), exp |-> NoExpiry]
        ELSE [val |-> <<"k">>, exp |-> NoExpiry]] : I \in {{"T1"}, Teams}}

InitEvents ==
    /\ now = StartTime
    /\ redis \in EventStores
    /\ processed_event_ids = {}
    /\ workers \in {NoWorkers, Crashed}
    /\ written = NoWrites
    /\ replies = [e \in EventIds |-> 0]
    /\ warnings = [p \in Pairs |-> <<>>]
    /\ exchanged = [tm \in Teams |-> PyNone]
    /\ handled = 0

\* deliveries on two threads: the first thread takes any
\* delivery, the second the one-image uploads, side by side with the first
NextEvents ==
    \/ Serve(SlackEvents("w1", Signed(EventBodies, now) \cup Forged(Handshake, now)))
    \/ Serve(SlackEvents("w2", ThreadRequests(now)))
    \/ Steps

SpecEvents == InitEvents /\ [][NextEvents]_vars

\* any number of one-image uploads on two threads, while time passes
NextThreads ==
    \/ \E w \in Workers : Free(SlackEvents(w, ThreadRequests(now)))
    \/ Steps
    \/ Free(Tick)

SpecThreads == InitEvents /\ [][NextThreads]_vars

\* the slash commands alone, on two threads, over a fresh store or one that
\* holds a key of the first user, set in an earlier run
KeyStores == {EmptyStore, RedisSet(EmptyStore, ApiKeyKey("U1"), <<"k", "k">>, NoExpiry)}

InitKeys ==
    /\ now = StartTime
    /\ redis \in KeyStores
    /\ processed_event_ids = {}
    /\ workers \in {NoWorkers, Crashed}
    /\ written = NoWrites
    /\ replies = [e \in EventIds |-> 0]
    /\ warnings = [p \in Pairs |-> <<>>]
    /\ exchanged = [tm \in Teams |-> PyNone]
    /\ handled = 0

NextKeys ==
    \/ \E w \in Workers :
         Serve(SetApiKey(w, Signed(SetBodies, now)
                              \cup Forged([user_id |-> "U1", text |-> <<"k">>], now)))
    \/ \E w \in Workers :
         Serve(GetApiKey(w, Signed(UserBodies, now) \cup Forged([user_id |-> "U1"], now)))
    \/ \E w \in Workers :
         Serve(DeleteApiKey(w, Signed(UserBodies, now) \cup Forged([user_id |-> "U1"], now)))
    \/ \E w \in Workers : Free(KeySet(w))
    \/ \E w \in Workers : Free(KeyGet(w))
    \/ \E w \in Workers : Free(KeyDelete(w))
    \/ \E w \in Workers : Free(Return(w))

SpecKeys == InitKeys /\ [][NextKeys]_vars

\* the installs alone, for any number of them, on two threads
NextOAuth ==
    \/ \E w \in Workers : Free(OAuthCallback(w))
    \/ \E w \in Workers : Free(OAuthExchange(w))
    \/ \E w \in Workers : Free(TokenSet(w))
    \/ \E w \in Workers : Free(Return(w))

SpecOAuth == Init /\ [][NextOAuth]_vars

---------------------------------------------------------------------------
(* The claims *)

\* the thread is handling a request; it has the response
Handling(c) == c.pc \notin {"idle", "NameError"}
Finished(c) == c.pc = "done"
\* this step is a step of thread w; with this step thread w gets its response
Moves(w) == workers'[w] # workers[w]
Finishes(w) == workers[w].pc # "done" /\ workers'[w].pc = "done"
\* this step takes a request for thread w
Takes(w) == workers[w].pc = "idle" /\ Handling(workers'[w])

\* a verified delivery of an event (not the handshake)
IsDelivery(c) ==
    Handling(c) /\ c.ep = "events" /\ c.verified /\ c.req.body.type = "event_callback"
IsFileShare(c) ==
    IsDelivery(c) /\ c.req.body.event.type = "message"
      /\ c.req.body.event.subtype = "file_share"
IsDownload(c) == c.op = "requests.get"
IsInference(c) == c.op = "requests.post"
NoWork(calls) ==
    \A i \in DOMAIN calls : ~IsPost(calls[i]) /\ ~IsDownload(calls[i]) /\ ~IsInference(calls[i])
\* the attachments whose mimetype starts with "image/"
ImageFiles(files) == {i \in DOMAIN files : files[i].mimetype[1] = "image"}

(* C1, as the claim states it: the first delivery of an event id is        *)
(* processed (it goes past the seen check and the id is recorded), and     *)
(* every later delivery of the id (one that did not go past the check, of  *)
(* an id that is in the seen set) is answered "Duplicate" and makes no     *)
(* post, no download and no inference call.                                *)
C1_FirstProcessedLaterDuplicate ==
    [][\A w \in Workers :
         (Finishes(w) /\ IsDelivery(workers'[w])) =>
           LET c == workers'[w] IN
           IF ~c.passed /\ c.req.body.event_id \in processed_event_ids
           THEN c.status = 200 /\ c.body = <<"Duplicate">> /\ NoWork(c.calls)
           ELSE c.passed /\ c.req.body.event_id \in processed_event_ids']_vars

(* C2, as the claim states it: at most one post_to_slack call is made for  *)
(* any one event id, whatever the number of attached files.                *)
C2_AtMostOneReply == \A e \in EventIds : replies[e] <= 1

\* the posts a delivery may make: one per image when the lookup found a key
\* of the user, the warning when it found none
RepliesDue(c) ==
    IF "api_key" \in DOMAIN c THEN Cardinality(ImageFiles(c.req.body.event.files)) ELSE 1

(* C2, amended: a post is made only by a delivery that went past the seen  *)
(* check, and such a delivery makes at most one post per image attachment  *)
(* when its user has a key, and at most one (the warning) when the user    *)
(* has none; a delivery that found its id in the seen set makes none.      *)
C2_RepliesOfOneDelivery ==
    [][\A e \in EventIds :
         /\ replies'[e] # replies[e] =>
              \E w \in Workers :
                /\ Moves(w)
                /\ IsDelivery(workers'[w]) /\ workers'[w].req.body.event_id = e
                /\ workers'[w].passed
                /\ replies'[e] = replies[e] + 1
                /\ Len(Posts(workers'[w].calls)) = Len(Posts(workers[w].calls)) + 1
                /\ Len(Posts(workers'[w].calls)) <= RepliesDue(workers'[w])
         /\ \A w \in Workers :
              (workers[w].pc = "seen_test" /\ Moves(w)
                 /\ workers[w].req.body.event_id \in processed_event_ids) =>
                /\ Finished(workers'[w]) /\ workers'[w].body = <<"Duplicate">>
                /\ Posts(workers'[w].calls) = <<>>]_vars

\* a redelivery answered "Duplicate" of an event that got two replies
C2_Witness ==
    \E w \in Workers :
      /\ IsDelivery(workers[w]) /\ Finished(workers[w])
      /\ workers[w].body = <<"Duplicate">>
      /\ replies[workers[w].req.body.event_id] = 2

\* this step is a step of thread w, which handles a request that has not
\* passed verify_slack_request
UnverifiedStep(w) ==
    Moves(w) /\ Handling(workers'[w]) /\ ~workers'[w].verified

(* C3, as the claim states it: while a request is handled that has not     *)
(* passed verify_slack_request, nothing is written to the store, nothing   *)
(* added to the seen set and no notifier call made, on every endpoint.     *)
C3_NoEffectUnverified ==
    [][\A w \in Workers :
         UnverifiedStep(w) =>
           /\ redis' = redis
           /\ processed_event_ids' = processed_event_ids
           /\ Posts(workers'[w].calls) = <<>>]_vars

(* C3, amended: that holds on /events, /set-apikey, /get-apikey and        *)
(* /delete-apikey (and on / and /install).  /oauth/callback never calls    *)
(* verify_slack_request: it adds nothing to the seen set and makes no      *)
(* notifier call, and its one write to the store is the redis.set that     *)
(* follows a successful exchange, which puts the access token of the       *)
(* exchange under the token key of the team of the exchange and changes    *)
(* nothing else.                                                           *)
C3_NoEffectUnverifiedButInstall ==
    [][\A w \in Workers :
         UnverifiedStep(w) =>
           /\ processed_event_ids' = processed_event_ids
           /\ Posts(workers'[w].calls) = <<>>
           /\ IF workers'[w].ep = "oauth_callback" /\ redis' # redis
              THEN LET exchange == workers[w].calls[Len(workers[w].calls)] IN
                   /\ workers[w].pc = "token_set" /\ Len(workers[w].calls) = 1
                   /\ exchange.op = "oauth.v2.access"
                   /\ exchange.response.kind = "response"
                   /\ exchange.response.status = 200
                   /\ exchange.response.json /\ exchange.response.ok
                   /\ DOMAIN redis' = DOMAIN redis \cup {<<"token", exchange.response.team_id>>}
                   /\ \A k \in DOMAIN redis' :
                        IF k = <<"token", exchange.response.team_id>>
                        THEN redis'[k] = [val |-> exchange.response.access_token,
                                          exp |-> NoExpiry]
                        ELSE redis'[k] = redis[k]
              ELSE redis' = redis]_vars

\* an upload under a wrong signature was turned away: its id is not in the
\* seen set and no warned flag is in the store, while the same upload,
\* correctly signed, has been taken by the other thread
C3_Witness ==
    \E w \in Workers :
      /\ Finished(workers[w])
      /\ workers[w].ep = "events"
      /\ workers[w].req.body = Upload
      /\ workers[w].gate = [kind |-> "abort", status |-> 400,
                            body |-> "Invalid Slack signature.", compared |-> TRUE]
      /\ workers[w].status = 400 /\ workers[w].calls = <<>>
      /\ processed_event_ids = {}
      /\ \E v \in Workers \ {w} : IsDelivery(workers[v]) /\ workers[v].req.body = Upload

\* the warning posts of a pair made less than the ttl ago
RecentWarnings(p) ==
    Cardinality({i \in DOMAIN warnings[p] : warnings[p][i] > now - WarnTTL})

\* the (user, message ts) pair of a delivery
PairOf(c) == <<c.req.body.event.user, c.req.body.event.ts>>

(* C4, as the claim states it: for a user without a key, exactly one       *)
(* warning is posted for a (user, message ts) pair while the pair's warned *)
(* flag lives: never two within 3600 s, and when a delivery for the pair   *)
(* is answered "No API key" its warning has been posted within the last    *)
(* 3600 s (or the thread that set the flag is at the post).                *)
C4_OneWarningPerCooldown ==
    /\ [](\A p \in Pairs : RecentWarnings(p) <= 1)
    /\ [][\A w \in Workers :
            (Finishes(w) /\ IsDelivery(workers'[w])
               /\ workers'[w].body = <<"No API key">>) =>
              \/ RecentWarnings(PairOf(workers[w]))' >= 1
              \/ \E v \in Workers \ {w} :
                   /\ workers[v].pc = "warn_post"
                   /\ PairOf(workers[v]) = PairOf(workers[w])]_vars

GatedEndpoints == {"events"} \cup SlashCommands

(* C5: a request whose timestamp is more than 300 s from now, past or      *)
(* future, is rejected whatever its signature, before the signature is     *)
(* compared; one exactly 300 s away is not rejected for its timestamp.     *)
C5_ReplayWindow ==
    [][\A w \in Workers :
         (Takes(w) /\ workers'[w].ep \in GatedEndpoints
            /\ workers'[w].req.timestamp.some /\ workers'[w].req.timestamp.val.numeric) =>
           LET c == workers'[w]
               deviation == Abs(now - c.req.timestamp.val.n)
           IN /\ deviation > 300 =>
                   /\ Finished(c)
                   /\ c.status = 400 /\ c.body = <<"Invalid request timestamp.">>
                   /\ ~c.verified /\ ~c.gate.compared
              /\ deviation <= 300 =>
                   ~(Finished(c) /\ c.body = <<"Invalid request timestamp.">>)]_vars

\* a correctly signed request from 301 s in the future was rejected
C5_Witness ==
    \E w \in Workers :
      /\ Finished(workers[w])
      /\ workers[w].ep \in GatedEndpoints
      /\ workers[w].req.timestamp = Some(NumStr(now + 301))
      /\ workers[w].req.signature =
           Some(Sign(SLACK_SIGNING_SECRET, workers[w].req.timestamp, workers[w].req.body))
      /\ workers[w].status = 400

\* with this step thread w gets the answer of the redis.get of a verified
\* /get-apikey; the user of the command thread w handles
Reads(w) == workers[w].pc = "key_get" /\ Finishes(w)
UserOf(w) == workers[w].req.body.user_id

(* C6, as the claim states it: /set-apikey with any string, then           *)
(* /get-apikey of the same user (its read of the key is the next access    *)
(* to the key after the write of the set), returns the identical string;   *)
(* and /delete-apikey, then /get-apikey, returns "No API key set".         *)
(* (Read of the gets that return: one that ends in an exception returns    *)
(* nothing to compare.)                                                    *)
C6_RoundTripIdentical ==
    [][\A w \in Workers :
         (Reads(w) /\ ~workers'[w].raised) =>
           LET last == written[UserOf(w)] IN
           /\ last.op = "set" => workers'[w].body = CurrentKeyMessage(last.text)
           /\ last.op = "delete" => workers'[w].body = NoKeyMessage]_vars

\* the text between its first and its last character that is no whitespace
NonSpaces(text) == {i \in DOMAIN text : text[i] \notin Whitespace}
First(S) == CHOOSE i \in S : \A j \in S : i <= j
Last(S) == CHOOSE i \in S : \A j \in S : i >= j
Trimmed(text) == SubSeq(text, First(NonSpaces(text)), Last(NonSpaces(text)))

(* C6, amended.  A verified /set-apikey whose text is empty or all         *)
(* whitespace is answered with the usage message and makes no store call;  *)
(* any other goes on to one redis.set, which either raises (the command    *)
(* ends in the exception and the store is as it was) or leaves the text    *)
(* without its leading and trailing whitespace under the user's key and    *)
(* is answered "saved".  A verified /delete-apikey either raises in the    *)
(* same way or leaves no key of the user.  A /get-apikey of the user whose *)
(* redis.get is the next access to the key after such a write returns the  *)
(* trimmed text of that set (the identical string when there was nothing   *)
(* to trim), "No API key set" after a delete, or ends in the exception of  *)
(* its own store call.  This holds however the commands of the threads     *)
(* overlap: the get answers with the write the store made last.            *)
C6_RoundTripStripped ==
    [][\A w \in Workers :
         LET c == workers'[w]
             key == <<"key", UserOf(w)>>
         IN
         /\ (Takes(w) /\ c.ep = "set_api_key" /\ c.verified) =>
              IF NonSpaces(c.req.body.text) = {}
              THEN /\ Finished(c) /\ c.status = 200 /\ c.body = UsageMessage
                   /\ c.calls = <<>> /\ redis' = redis
              ELSE ~Finished(c) /\ c.pc = "key_set"
         /\ (workers[w].pc = "key_set" /\ Finishes(w)) =>
              IF c.raised THEN c.status = 500 /\ redis' = redis
              ELSE /\ c.status = 200 /\ c.body = SavedMessage
                   /\ key \in DOMAIN redis'
                   /\ redis'[key].val = Trimmed(c.req.body.text)
                   /\ \A k \in DOMAIN redis \ {key} : k \in DOMAIN redis' /\ redis'[k] = redis[k]
         /\ (workers[w].pc = "key_delete" /\ Finishes(w)) =>
              IF c.raised THEN c.status = 500 /\ redis' = redis
              ELSE /\ c.status = 200 /\ c.body = RemovedMessage
                   /\ key \notin DOMAIN redis'
                   /\ \A k \in DOMAIN redis \ {key} : k \in DOMAIN redis' /\ redis'[k] = redis[k]
         /\ Reads(w) =>
              LET last == written[UserOf(w)] IN
              /\ c.raised <=> ~c.calls[1].ok
              /\ redis' = redis
              /\ (~c.raised /\ last.op = "set") =>
                   c.status = 200 /\ c.body = CurrentKeyMessage(Trimmed(last.text))
              /\ (~c.raised /\ last.op = "delete") =>
                   c.status = 200 /\ c.body = NoKeyMessage]_vars

\* a tab and "k" were set, the command was answered, and the get that came
\* next returned "k"
C6_Witness ==
    \E w \in Workers :
      /\ Finished(workers[w])
      /\ workers[w].ep = "get_api_key" /\ workers[w].verified
      /\ \A v \in Workers \ {w} : workers[v] = Idle
      /\ written[UserOf(w)] = [op |-> "set", text |-> <<"\t", "k">>]
      /\ workers[w].body = CurrentKeyMessage(<<"k">>)

(* C7, as the claim states it: a verified file_share event that carries    *)
(* bot_id, or none of whose files is an image, makes no download, no       *)
(* inference call and no notifier call, with or without a stored key.      *)
C7_IgnoredMakeNoCall ==
    \A w \in Workers :
      LET c == workers[w] IN
      (IsFileShare(c) /\ (c.req.body.event.bot_id
                            \/ (c.req.body.event.files # <<>>
                                  /\ ImageFiles(c.req.body.event.files) = {}))) =>
        NoWork(c.calls)

(* C8, as the claim states it: no request handler ends in an exception     *)
(* that it has not caught.                                                 *)
C8_NothingRaises == \A w \in Workers : Finished(workers[w]) => ~workers[w].raised

\* an inference POST that was answered, and not with 200
FailedInference(c) ==
    IsInference(c) /\ c.response.kind = "response" /\ c.response.status # 200

(* C9, as the claim states it: when the inference endpoint answers with a  *)
(* non-success status, the error text holds the status code, the POST is   *)
(* not repeated, and the event gets exactly one notifier call.             *)
C9_OneErrorReplyPerEvent ==
    \A w \in Workers :
      LET c == workers[w] IN
      (IsDelivery(c) /\ Finished(c)) =>
        \A i \in DOMAIN c.calls :
          FailedInference(c.calls[i]) =>
            /\ Len(Posts(c.calls)) = 1
            /\ Contains(Posts(c.calls)[1].text, Str(c.calls[i].response.status))
            /\ \A j \in DOMAIN c.calls \ {i} :
                 IsInference(c.calls[j]) => c.calls[j].image # c.calls[i].image

(* C9, amended: when the inference endpoint answers with a non-success     *)
(* status for an image, the next call is the one notifier call for that    *)
(* image, its text holds the status code, and the POST is not repeated     *)
(* for the image; an event with several images gets a reply per image.     *)
C9_OneErrorReplyPerImage ==
    \A w \in Workers :
      LET c == workers[w] IN
      (IsDelivery(c) /\ Finished(c)) =>
        \A i \in DOMAIN c.calls :
          FailedInference(c.calls[i]) =>
            /\ i < Len(c.calls)
            /\ IsPost(c.calls[i + 1])
            /\ Contains(c.calls[i + 1].text, Str(c.calls[i].response.status))
            /\ i + 2 <= Len(c.calls) => ~IsPost(c.calls[i + 2])
            /\ \A j \in DOMAIN c.calls \ {i} :
                 IsInference(c.calls[j]) => c.calls[j].image # c.calls[i].image

\* the inference of the first of two images answered 500, the second was replied to
C9_Witness ==
    \E w \in Workers :
      LET c == workers[w] IN
      /\ IsDelivery(c) /\ Finished(c)
      /\ Len(Posts(c.calls)) = 2
      /\ \E i \in DOMAIN c.calls :
           /\ FailedInference(c.calls[i])
           /\ c.calls[i].image = Url(1)

\* no callback of the team is between its exchange and its write
Settled(tm) ==
    \A w \in Workers : ~(workers[w].pc = "token_set" /\ workers[w].team_id = tm)
\* thread w has made an exchange, and it succeeded
Exchanged(c) ==
    c.calls # <<>> /\ c.calls[1].op = "oauth.v2.access"
      /\ ExchangeSucceeded(c.calls[1].response)

(* C10, as the claim states it: after /oauth/callback the stored token of  *)
(* the team is the access token of the last successful exchange, and a     *)
(* callback with no code or with a failed exchange returns 400 and leaves  *)
(* the store as it was.                                                    *)
C10_TokenOfLastExchange ==
    /\ [](\A tm \in Teams :
            (exchanged[tm].some /\ Settled(tm)) =>
              RedisGet(redis, TokenKey(tm), now) = exchanged[tm])
    /\ [][\A w \in Workers :
            (Finishes(w) /\ workers'[w].ep = "oauth_callback" /\ ~Exchanged(workers'[w])) =>
              workers'[w].status = 400 /\ redis' = redis]_vars

\* a first-seen file_share delivery, no bot's, of a user without a stored key
KeylessUpload(c) ==
    /\ IsFileShare(c)
    /\ ~c.req.body.event.bot_id
    /\ c.passed
    /\ IsNone(RedisGet(redis, ApiKeyKey(c.req.body.event.user), now))

(* C11, as the claim states it: a verified, first-seen file_share event,   *)
(* no bot's, of a user without a stored key makes no download and no       *)
(* inference call, posts at most the warning, and is answered with 200.    *)
C11_MissingKeyAnswered200 ==
    \A w \in Workers :
      LET c == workers[w] IN
      KeylessUpload(c) =>
        /\ \A i \in DOMAIN c.calls :
             /\ ~IsDownload(c.calls[i]) /\ ~IsInference(c.calls[i])
             /\ IsPost(c.calls[i]) => IsWarning(c.calls[i])
        /\ Len(Posts(c.calls)) <= 1
        /\ Finished(c) => c.status = 200

\* the delivery went past the seen check, and its id is in the seen set
Recorded(c) == c.passed /\ c.req.body.event_id \in processed_event_ids

\* how a verified POST /events can end
ChallengeEcho(c) ==
    /\ c.req.body.type = "url_verification"
    /\ c.status = 200 /\ c.body = c.req.body.challenge
    /\ c.calls = <<>>
DuplicateAck(c) ==
    /\ IsDelivery(c)
    /\ c.status = 200 /\ c.body = <<"Duplicate">>
    /\ ~c.passed /\ c.req.body.event_id \in processed_event_ids
    /\ Len(c.calls) = 1 /\ c.calls[1].op = "redis.get"
NoCredentialWarning(c) ==
    /\ IsFileShare(c)
    /\ c.status = 200 /\ c.body = <<"No API key">>
    /\ Recorded(c)
    /\ \A i \in DOMAIN c.calls :
         /\ ~IsDownload(c.calls[i]) /\ ~IsInference(c.calls[i])
         /\ IsPost(c.calls[i]) => IsWarning(c.calls[i])
    /\ Len(Posts(c.calls)) <= 1
ProcessAndReply(c) ==
    /\ IsFileShare(c)
    /\ c.status = 200 /\ c.body = <<"OK">>
    /\ Recorded(c)
    /\ Len(Posts(c.calls)) >= 1
    /\ Len(Posts(c.calls)) = Cardinality(ImageFiles(c.req.body.event.files))
\* acknowledged and dropped: a bot's message, an event that is no
\* file_share message, or a keyed user's upload without an image
Ignored(c) ==
    /\ IsDelivery(c)
    /\ c.status = 200 /\ c.body \in {<<"Ignore bot">>, <<"OK">>}
    /\ Recorded(c)
    /\ NoWork(c.calls)
    /\ \/ ~IsFileShare(c)
       \/ c.req.body.event.bot_id
       \/ ImageFiles(c.req.body.event.files) = {}
\* an exception left the handler
Failed(c) == c.raised /\ c.status = 500

Outcome(name, c) ==
    CASE name = "challenge-echo" -> ChallengeEcho(c)
      [] name = "duplicate-ack" -> DuplicateAck(c)
      [] name = "no-credential warning" -> NoCredentialWarning(c)
      [] name = "process-and-reply" -> ProcessAndReply(c)
      [] name = "ignored" -> Ignored(c)
      [] OTHER -> Failed(c)
FourOutcomes ==
    {"challenge-echo", "duplicate-ack", "no-credential warning", "process-and-reply"}
\* the verified POST /events that thread w has answered ended in exactly one
\* outcome of the set
EndsInOneOf(w, outcomes) ==
    Cardinality({o \in outcomes : Outcome(o, workers[w])}) = 1
Answered(w) ==
    Finished(workers[w]) /\ workers[w].ep = "events" /\ workers[w].verified

(* C12, as the claim states it: every verified POST /events ends in        *)
(* exactly one of challenge-echo, duplicate-ack, no-credential warning and *)
(* process-and-reply.  (Read of the requests whose handler returns.)       *)
C12_FourOutcomes ==
    \A w \in Workers :
      (Answered(w) /\ ~workers[w].raised) => EndsInOneOf(w, FourOutcomes)

(* C12, amended: every verified POST /events ends in exactly one of six    *)
(* outcomes: the four of the claim, "ignored" (a bot's message, an event   *)
(* that is no file_share message, or a keyed user's upload without an      *)
(* image: acknowledged with 200, the id recorded, nothing posted), and an  *)
(* uncaught exception (500).  The signature is compared before anything    *)
(* else, and a duplicate is acknowledged after the one lookup of the       *)
(* team's token.                                                           *)
C12_SixOutcomes ==
    \A w \in Workers :
      Answered(w) =>
        /\ workers[w].gate.compared
        /\ EndsInOneOf(w, FourOutcomes \cup {"ignored", "failed"})

\* a bot's upload was acknowledged, recorded and dropped
C12_Witness ==
    \E w \in Workers :
      /\ Answered(w) /\ IsFileShare(workers[w])
      /\ workers[w].body = <<"Ignore bot">>
      /\ workers[w].req.body.event_id \in processed_event_ids
      /\ NoWork(workers[w].calls)

\* the thread is handling event e and has gone past the seen check
PastCheck(w, e) ==
    /\ IsDelivery(workers[w])
    /\ workers[w].req.body.event_id = e
    /\ workers[w].passed

(* C13, as the claim states it: of two deliveries of one event id handled  *)
(* by two worker threads, at most one goes past the deduplication check,   *)
(* and the id gets at most one reply (each delivery here carries one       *)
(* image).                                                                 *)
C13_AtMostOnePastCheck ==
    \A e \in EventIds :
      /\ Cardinality({w \in Workers : PastCheck(w, e)}) <= 1
      /\ replies[e] <= 1

\* the calls that carry the bot token: the image download and the post
CarriesBotToken(c) == IsDownload(c) \/ IsPost(c)
\* the token the store holds for the team, or the static one
TokenOf(team_id) ==
    IF <<"token", team_id>> \in DOMAIN redis THEN redis[<<"token", team_id>>].val
    ELSE SLACK_TOKEN

(* C14: every image download and every post made while handling an event  *)
(* carries the token the handler read for the event's team: the token      *)
(* stored for the team when one is stored, and the static token otherwise; *)
(* never the token stored for another team.                                *)
C14_TokenOfTenant ==
    /\ [][\A w \in Workers :
            (workers[w].pc = "token_lookup" /\ workers'[w].pc = "seen_test") =>
              workers'[w].bot_token = TokenOf(workers[w].req.body.team_id)]_vars
    /\ [](\A w \in Workers :
            LET c == workers[w] IN
            IsDelivery(c) =>
              \A i \in DOMAIN c.calls :
                CarriesBotToken(c.calls[i]) =>
                  /\ c.calls[i].token = c.bot_token
                  /\ c.calls[i].token = TokenOf(c.req.body.team_id)
                  /\ \A tm \in Teams \ {c.req.body.team_id} :
                       <<"token", tm>> \in DOMAIN redis =>
                         c.calls[i].token # redis[<<"token", tm>>].val)

\* both teams have installed; an upload of the second team was downloaded
\* and replied to with the second team's token
C14_Witness ==
    \E w \in Workers :
      LET c == workers[w] IN
      /\ IsDelivery(c)
      /\ c.req.body.team_id = "T2"
      /\ \A tm \in Teams : <<"token", tm>> \in DOMAIN redis
      /\ redis[<<"token", "T1">>].val # redis[<<"token", "T2">>].val
      /\ \E i \in DOMAIN c.calls : IsDownload(c.calls[i])
      /\ \E i \in DOMAIN c.calls :
           IsPost(c.calls[i]) /\ c.calls[i].token = redis[<<"token", "T2">>].val

\* the store entries other than the API key of the user
OtherEntries(store, user_id) == {k \in DOMAIN store : k # <<"key", user_id>>}

(* C15: a verified /set-apikey, /get-apikey or /delete-apikey changes at   *)
(* most the API key entry of the submitting user: every other entry of the *)
(* store (other users' keys, tokens, warned flags) and the seen set stay   *)
(* as they were, and /get-apikey changes nothing.                          *)
C15_OnlyOwnKeyChanges ==
    [][\A w \in Workers :
         (Moves(w) /\ Handling(workers'[w]) /\ workers'[w].ep \in SlashCommands
            /\ workers'[w].verified) =>
           LET user_id == workers'[w].req.body.user_id IN
           /\ processed_event_ids' = processed_event_ids
           /\ OtherEntries(redis', user_id) = OtherEntries(redis, user_id)
           /\ \A k \in OtherEntries(redis, user_id) : redis'[k] = redis[k]
           /\ workers'[w].ep = "get_api_key" => redis' = redis]_vars

\* the second user set a key while the first user's key was stored
C15_Witness ==
    \E w \in Workers :
      /\ Finished(workers[w])
      /\ workers[w].ep = "set_api_key"
      /\ workers[w].verified /\ workers[w].body = SavedMessage
      /\ workers[w].req.body.user_id = "U2"
      /\ <<"key", "U1">> \in DOMAIN redis
      /\ <<"key", "U2">> \in DOMAIN redis

\* a download that was answered, and not with 200
FailedDownload(c) ==
    IsDownload(c) /\ c.response.kind = "response" /\ c.response.status # 200

(* C16: for each image of a processed event at most one download and at   *)
(* most one inference POST are issued, the download first; when the        *)
(* download is answered with a non-success status, no inference POST is    *)
(* made for the image and the next call posts the download-failure         *)
(* message with that status.                                               *)
C16_OneDownloadOneInference ==
    \A w \in Workers :
      (IsDelivery(workers[w]) /\ Finished(workers[w])) =>
        LET calls == workers[w].calls IN
        /\ \A i, j \in DOMAIN calls :
             /\ (IsDownload(calls[i]) /\ IsDownload(calls[j]) /\ calls[i].url = calls[j].url)
                  => i = j
             /\ (IsInference(calls[i]) /\ IsInference(calls[j])
                   /\ calls[i].image = calls[j].image) => i = j
        /\ \A i \in DOMAIN calls :
             IsInference(calls[i]) =>
               /\ i > 1 /\ IsDownload(calls[i - 1])
               /\ calls[i - 1].url = calls[i].image
               /\ calls[i - 1].response.kind = "response"
               /\ calls[i - 1].response.status = 200
        /\ \A i \in DOMAIN calls :
             FailedDownload(calls[i]) =>
               /\ \A j \in DOMAIN calls :
                    IsInference(calls[j]) => calls[j].image # calls[i].url
               /\ i < Len(calls) /\ IsPost(calls[i + 1])
               /\ calls[i + 1].text =
                    <<":x: Failed to download image. Status: ">>
                      \o Str(calls[i].response.status)

\* the download of the first of two images was answered 404 and replied
\* to; the second image went on to the inference
C16_Witness ==
    \E w \in Workers :
      LET c == workers[w] IN
      /\ IsDelivery(c) /\ Finished(c)
      /\ \E i \in DOMAIN c.calls :
           /\ FailedDownload(c.calls[i]) /\ c.calls[i].url = Url(1)
           /\ c.calls[i].response.status = 404
      /\ \E j \in DOMAIN c.calls :
           IsInference(c.calls[j]) /\ c.calls[j].image = Url(2)

\* the lookup of an API key, and the calls that leave for Slack or Tiliter
IsKeyLookup(c) == c.op = "redis.get" /\ c.key[1] = "key"
IsOutbound(c) == IsDownload(c) \/ IsInference(c) \/ IsPost(c)

(* C17, as the claim states it: an event id is in the seen set before the  *)
(* API key is looked up and before any outbound call of its processing,    *)
(* it is never removed, and every delivery of an id that is in the set is  *)
(* answered "Duplicate", whatever became of the delivery that put it       *)
(* there.                                                                  *)
C17_RecordedThenDuplicate ==
    [][/\ processed_event_ids \subseteq processed_event_ids'
       /\ \A w \in Workers :
            (Moves(w) /\ IsDelivery(workers'[w])) =>
              LET c == workers'[w]
                  event_id == c.req.body.event_id
              IN /\ (\E i \in DOMAIN c.calls : IsKeyLookup(c.calls[i]) \/ IsOutbound(c.calls[i]))
                      => event_id \in processed_event_ids
                 /\ (Finishes(w) /\ ~c.passed /\ event_id \in processed_event_ids) =>
                      c.status = 200 /\ c.body = <<"Duplicate">>]_vars

(* C18: a verified /set-apikey whose text is empty or only whitespace      *)
(* returns the usage message and leaves the store as it was (a key the     *)
(* user had stored is neither overwritten nor deleted); no stored API key  *)
(* is ever the empty string.                                               *)
C18_BlankKeyRefused ==
    [][/\ \A w \in Workers :
            (Takes(w) /\ workers'[w].ep = "set_api_key" /\ workers'[w].verified
               /\ NonSpaces(workers'[w].req.body.text) = {}) =>
              /\ Finished(workers'[w])
              /\ workers'[w].status = 200 /\ workers'[w].body = UsageMessage
              /\ workers'[w].calls = <<>>
              /\ redis' = redis
       /\ \A k \in DOMAIN redis' : k[1] = "key" => redis'[k].val # <<>>]_vars

\* a user with a stored key sent a space and a tab and kept the key
C18_Witness ==
    \E w \in Workers :
      /\ Finished(workers[w])
      /\ workers[w].ep = "set_api_key"
      /\ workers[w].verified
      /\ workers[w].req.body.text = <<" ", "\t">>
      /\ workers[w].body = UsageMessage
      /\ <<"key", workers[w].req.body.user_id>> \in DOMAIN redis
      /\ redis[<<"key", workers[w].req.body.user_id>>].val = <<"k">>

====
